---- MODULE Spec2Model ----
(***************************************************************************)
(* Model of the web-form module of medusa (src/src/modsrc/web-form.c):     *)
(* the per-invocation state machine of initModule, one round-trip of       *)
(* tryLogin, the redirect handling (_resolveLocationPath,                  *)
(* _setCookiesFromResponse), the status-line parser and the header         *)
(* scanner.                                                                *)
(*                                                                         *)
(* C strings are sequences of one-character strings; C("abc") writes one. *)
(* The NULL pointer is the one-element tuple NULL, which is no C string.   *)
(***************************************************************************)
EXTENDS Integers, Sequences, FiniteSets, TLC

\* ------------------------------------------------------------------ bounds

\* Round-trips (calls of tryLogin) one invocation may make in the model.
MaxTrips == 3

\* ----------------------------------------------------------------- strings

C(s) == [i \in 1..Len(s) |-> SubSeq(s, i, i)]

NULL == <<"NULL">>

CR == "\r"

LF == "\n"

CRLF == C("\r\n")

UpperChars == C("ABCDEFGHIJKLMNOPQRSTUVWXYZ")

LowerChars == C("abcdefghijklmnopqrstuvwxyz")

Digits == C("0123456789")

LowerOf == [c \in {UpperChars[i] : i \in 1..Len(UpperChars)} |-> LowerChars[CHOOSE i \in 1..Len(UpperChars) : UpperChars[i] = c]]

tolower(c) == IF c \in DOMAIN LowerOf THEN LowerOf[c] ELSE c

LowerStr(s) == [i \in 1..Len(s) |-> tolower(s[i])]

isspace(c) == c \in {" ", "\t", "\n", "\r", "\f"}

isdigit(c) == \E i \in 1..Len(Digits) : Digits[i] = c

DigitVal(c) == (CHOOSE i \in 1..Len(Digits) : Digits[i] = c) - 1

MinOf(S) == CHOOSE x \in S : \A y \in S : x <= y

MaxOf(S) == CHOOSE x \in S : \A y \in S : x >= y

\* strchr(s + from - 1, c): index of the first c at or after from, 0 if none.
strchrFrom(s, c, from) ==
  LET hits == {i \in from..Len(s) : s[i] = c}
  IN  IF hits = {} THEN 0 ELSE MinOf(hits)

strchr(s, c) == strchrFrom(s, c, 1)

\* strcasestr(hay + from - 1, needle): index of the first case-insensitive
\* occurrence of needle that starts at or after from, 0 if there is none.
strcasestrFrom(hay, needle, from) ==
  LET h == LowerStr(hay)
      n == LowerStr(needle)
      hits == {i \in from..(Len(h) - Len(n) + 1) : \A k \in 1..Len(n) : h[i + k - 1] = n[k]}
  IN  IF hits = {} THEN 0 ELSE MinOf(hits)

strcasestr(hay, needle) == strcasestrFrom(hay, needle, 1)

\* strtol(s + from - 1, NULL, 10): leading white space, an optional sign, then
\* the longest run of digits; 0 when there is no digit.
RECURSIVE DigitsValue(_, _, _)
DigitsValue(s, i, acc) ==
  IF i <= Len(s) /\ isdigit(s[i]) THEN DigitsValue(s, i + 1, acc * 10 + DigitVal(s[i])) ELSE acc

strtol(s, from) ==
  LET p == MinOf({i \in from..(Len(s) + 1) : i = Len(s) + 1 \/ ~isspace(s[i])})
      neg == p <= Len(s) /\ s[p] = "-"
      q == IF p <= Len(s) /\ s[p] \in {"-", "+"} THEN p + 1 ELSE p
      v == DigitsValue(s, q, 0)
  IN  IF neg THEN 0 - v ELSE v

\* -------------------------------------------------- parseHttpStatusCode

HTTP_OK == 200

HTTP_MOVED_PERMANENTLY == 301

HTTP_FOUND == 302

HTTP_TEMPORARY_REDIRECT == 307

HTTP_PERMANENT_REDIRECT == 308

HTTP_BAD_REQUEST == 400

HTTP_UNAUTHORIZED == 401

HTTP_FORBIDDEN == 403

HTTP_NOT_FOUND == 404

RedirectCodes == {HTTP_MOVED_PERMANENTLY, HTTP_FOUND, HTTP_TEMPORARY_REDIRECT, HTTP_PERMANENT_REDIRECT}

ClientErrorCodes == {HTTP_BAD_REQUEST, HTTP_UNAUTHORIZED, HTTP_FORBIDDEN, HTTP_NOT_FOUND}

ImplementedCodes == {HTTP_OK} \cup RedirectCodes \cup ClientErrorCodes

\* The two values of HttpStatusCodeT that are no status code (web-form.h sets
\* their numbers). The switch of parseHttpStatusCode sends every number
\* outside ImplementedCodes to HTTP_STATUS_NOT_IMPL, so strtol never yields
\* HTTP_STATUS_PARSE_ERR, whatever its number is.
HTTP_STATUS_PARSE_ERR == -1

HTTP_STATUS_NOT_IMPL == -2

parseHttpStatusCode(buf) ==
  IF buf = NULL THEN HTTP_STATUS_PARSE_ERR
  ELSE LET ptr == strchr(buf, " ")
       IN  IF ptr = 0 THEN HTTP_STATUS_PARSE_ERR
           ELSE LET ret == strtol(buf, ptr)
                IN  IF ret \in ImplementedCodes THEN ret ELSE HTTP_STATUS_NOT_IMPL

\* ----------------------------------------------------- _findHeaderValue

\* The value of the first header `header` found in src at or after index
\* from. found = FALSE is the NULL return. prevPos is the index of the CR or
\* LF that ends the value. overrun: the scan for the end of the line ran past
\* the terminating NUL of src (no CR or LF follows the value), which reads
\* outside the buffer; value is then cut at the end of src.
_findHeaderValue(header, src, from) ==
  LET loc == IF src = NULL THEN 0 ELSE strcasestrFrom(src, header, from)
  IN  IF loc = 0
      THEN [found |-> FALSE, value |-> <<>>, prevPos |-> from, overrun |-> FALSE]
      ELSE LET start == loc + Len(header)
               p == MinOf({i \in start..(Len(src) + 1) : i = Len(src) + 1 \/ ~isspace(src[i])})
               eols == {i \in p..Len(src) : src[i] \in {CR, LF}}
               eol == IF eols = {} THEN Len(src) + 1 ELSE MinOf(eols)
           IN  [found |-> TRUE, value |-> SubSeq(src, p, eol - 1), prevPos |-> eol, overrun |-> eols = {}]

LocationNeedle == C("\r\nLocation:")

SetCookieNeedle == C("\r\nSet-Cookie:")

findLocationHeaderValue(src) == _findHeaderValue(LocationNeedle, src, 1)

\* ------------------------------------------------------------ urlencodeup

\* The printable ASCII characters in code order; Ascii[i] has code i + 31.
\* (Code 96, the grave accent, cannot be written in a string here.)
Ascii == C(" !\"#$%&'()*+,-./0123456789:;<=>?@ABCDEFGHIJKLMNOPQRSTUVWXYZ[\\]^_") \o <<"GRAVE">> \o C("abcdefghijklmnopqrstuvwxyz{|}~")

HexDigits == C("0123456789ABCDEF")

\* Bytes outside the printable ASCII range, each written as one element of a
\* string: line feed and three bytes with the top bit set.
OtherBytes == <<"\n", "<80>", "<E9>", "<FF>">>

OtherByteCodes == <<10, 128, 233, 255>>

\* The value of a byte, 0..255.
CharCode(c) ==
  IF \E i \in 1..Len(OtherBytes) : OtherBytes[i] = c
  THEN OtherByteCodes[CHOOSE i \in 1..Len(OtherBytes) : OtherBytes[i] = c]
  ELSE (CHOOSE i \in 1..Len(Ascii) : Ascii[i] = c) + 31

\* The value of a char: where char is signed a byte with the top bit set is
\* negative.
CharValue(c, charSigned) == IF charSigned /\ CharCode(c) >= 128 THEN CharCode(c) - 256 ELSE CharCode(c)

BETWEEN(lo, c, hi) == CharCode(lo) <= c /\ c <= CharCode(hi)

URL_ENCODE_BYTE_FMT == C("%%%02X")

\* What "%02X" prints for (unsigned int) c with a 32-bit unsigned int: two
\* digits for 0..255; a negative char converts to 0xFFFFFF00 + the byte.
HexOfUnsignedInt(c, charSigned) ==
  (IF CharValue(c, charSigned) < 0 THEN <<"F", "F", "F", "F", "F", "F">> ELSE <<>>)
    \o <<HexDigits[(CharCode(c) \div 16) + 1], HexDigits[(CharCode(c) % 16) + 1]>>

\* snprintf(szRet + j, sizeof(URL_ENCODE_BYTE_FMT), URL_ENCODE_BYTE_FMT, (unsigned int) c):
\* the characters written before the NUL, at most sizeof(URL_ENCODE_BYTE_FMT) - 1.
UrlEncodeByte(c, charSigned) ==
  LET full == <<"%">> \o HexOfUnsignedInt(c, charSigned)
  IN  SubSeq(full, 1, IF Len(full) < Len(URL_ENCODE_BYTE_FMT) THEN Len(full) ELSE Len(URL_ENCODE_BYTE_FMT))

\* The loop of urlencodeup from byte i of szStr on, with j characters of szRet
\* filled: an alphanumeric byte takes one place, any other byte is printed at
\* j and j moves on by three, so that only the first three characters printed
\* stay. overflow: snprintf wrote past the 3 * iLen + 1 bytes of szRet.
RECURSIVE EncodeFrom(_, _, _, _)
EncodeFrom(szStr, i, j, charSigned) ==
  IF i > Len(szStr) THEN [szRet |-> <<>>, overflow |-> FALSE]
  ELSE LET c == CharValue(szStr[i], charSigned)
           plain == BETWEEN("a", c, "z") \/ BETWEEN("A", c, "Z") \/ BETWEEN("0", c, "9")
           printed == UrlEncodeByte(szStr[i], charSigned)
           rest == EncodeFrom(szStr, i + 1, IF plain THEN j + 1 ELSE j + 3, charSigned)
       IN  IF plain THEN [szRet |-> <<szStr[i]>> \o rest.szRet, overflow |-> rest.overflow]
           ELSE [ szRet |-> SubSeq(printed, 1, 3) \o rest.szRet,
                  overflow |-> rest.overflow \/ j + Len(printed) + 1 > 3 * Len(szStr) + 1 ]

\* urlencodeup for the build's char type.
urlencodeupOn(szStr, charSigned) == EncodeFrom(szStr, 1, 0, charSigned)

\* urlencodeup of a string of ASCII characters, for which signed and unsigned
\* char agree.
urlencodeup(szStr) == urlencodeupOn(szStr, TRUE).szRet

\* ------------------------------------------------------------- ModuleDataT

FORM_UNKNOWN == "FORM_UNKNOWN"

FORM_GET == "FORM_GET"

FORM_POST == "FORM_POST"

MODULE_DEFAULT_USERNAME_KEY == C("username=")

MODULE_DEFAULT_PASSWORD_KEY == C("password=")

MODULE_DEFAULT_DENY_SIGNAL == C("Login incorrect")

MODULE_DEFAULT_USER_AGENT == C("Mozilla/1.22")

POST_STR == C("POST")

GET_STR == C("GET")

COOKIE_HEADER == C("Cookie: ")

\* calloc(1, sizeof(ModuleDataT)): every pointer NULL, every number 0 (the
\* first enumerator of the form type is taken to be FORM_UNKNOWN).
newModuleData ==
  [ resourcePath |-> NULL, resourcePathOld |-> NULL, hostHeader |-> NULL,
    userAgentHeader |-> NULL, denySignal |-> NULL, formData |-> NULL,
    formRest |-> NULL, formUserKey |-> NULL, formPassKey |-> NULL,
    customHeaders |-> NULL, cookieJar |-> NULL, nCustomHeaders |-> 0,
    formType |-> FORM_UNKNOWN, changedRequestType |-> FALSE ]

\* ----------------------------------------------------------- path resolver

PATHTYPE_UNKNOWN == "PATHTYPE_UNKNOWN"

PATHTYPE_ABSOLUTE == "PATHTYPE_ABSOLUTE"

PATHTYPE_URI == "PATHTYPE_URI"

PATHTYPE_RELATIVE == "PATHTYPE_RELATIVE"

_pathType(path) ==
  IF path = NULL THEN PATHTYPE_UNKNOWN
  ELSE IF Len(path) >= 1 /\ path[1] = "/" THEN PATHTYPE_ABSOLUTE
  ELSE IF Len(path) > 4 /\ strcasestr(SubSeq(path, 1, 4), C("http")) # 0 THEN PATHTYPE_URI
  ELSE PATHTYPE_RELATIVE

\* resolvePath of web-form-resolve-path.h: the target merged with the
\* directory of the base path, "." and ".." segments collapsed.
RECURSIVE SplitSlash(_)
SplitSlash(s) ==
  LET i == strchr(s, "/")
  IN  IF i = 0 THEN <<s>> ELSE <<SubSeq(s, 1, i - 1)>> \o SplitSlash(SubSeq(s, i + 1, Len(s)))

RECURSIVE CollapseDots(_, _)
CollapseDots(segs, out) ==
  IF segs = <<>> THEN out
  ELSE LET h == Head(segs)
       IN  CollapseDots(Tail(segs),
             IF h = <<>> \/ h = C(".") THEN out
             ELSE IF h = C("..") THEN (IF out = <<>> THEN out ELSE SubSeq(out, 1, Len(out) - 1))
             ELSE Append(out, h))

RECURSIVE JoinSlash(_)
JoinSlash(segs) == IF segs = <<>> THEN <<>> ELSE <<"/">> \o Head(segs) \o JoinSlash(Tail(segs))

resolvePath(base, target) ==
  LET b == IF base = NULL THEN <<>> ELSE base
      slashes == {i \in 1..Len(b) : b[i] = "/"}
      dir == IF slashes = {} THEN <<"/">> ELSE SubSeq(b, 1, MaxOf(slashes))
      segs == CollapseDots(SplitSlash(dir \o target), <<>>)
  IN  IF segs = <<>> THEN <<"/">> ELSE JoinSlash(segs)

\* newLocation with its query string cut off: the first '?' becomes the NUL.
StripParameters(newLocation) ==
  LET hasParameters == strchr(newLocation, "?")
  IN  IF hasParameters = 0 THEN newLocation ELSE SubSeq(newLocation, 1, hasParameters - 1)

_resolveLocationPath(newLocation, md) ==
  LET loc == StripParameters(newLocation)
      t == _pathType(loc)
  IN  CASE t = PATHTYPE_RELATIVE ->
             [md EXCEPT !.resourcePathOld = md.resourcePath,
                        !.resourcePath = resolvePath(md.resourcePath, loc)]
        [] t = PATHTYPE_URI -> [md EXCEPT !.hostHeader = loc, !.resourcePath = loc]
        [] t = PATHTYPE_ABSOLUTE -> [md EXCEPT !.resourcePath = loc]
        [] OTHER -> md

\* ------------------------------------------------ _setCookiesFromResponse

\* The while loop: one "Cookie: <value>\r\n" line appended per Set-Cookie
\* header found from index pos on. overrun as in _findHeaderValue.
RECURSIVE CookieLoop(_, _, _)
CookieLoop(jar, response, pos) ==
  LET h == _findHeaderValue(SetCookieNeedle, response, pos)
  IN  IF ~h.found THEN [cookieJar |-> jar, overrun |-> FALSE]
      ELSE IF h.overrun THEN [cookieJar |-> jar \o COOKIE_HEADER \o h.value \o CRLF, overrun |-> TRUE]
      ELSE CookieLoop(jar \o COOKIE_HEADER \o h.value \o CRLF, response, h.prevPos)

_setCookiesFromResponse(md, response) ==
  [md EXCEPT !.cookieJar = CookieLoop(md.cookieJar, response, 1).cookieJar]

\* --------------------------------------------------------- request builder

\* What asprintf prints for a %s argument; for a NULL argument glibc prints
\* "(null)" (reading a NULL string is otherwise undefined, see UsesNull).
PrintS(str) == IF str = NULL THEN C("(null)") ELSE str

prepareRequestParamString(md, szLogin, szPassword) ==
  LET szPasswordEncoded == urlencodeup(szPassword)
      formRest == IF md.formRest # NULL /\ md.formRest # <<>> THEN <<"&">> \o md.formRest ELSE <<>>
      prefix == IF md.formType = FORM_GET THEN <<"?">> ELSE <<>>
  IN  prefix \o PrintS(md.formUserKey) \o szLogin \o <<"&">> \o PrintS(md.formPassKey) \o szPasswordEncoded \o formRest

NoRequest == [method |-> "NONE"]

prepareRequestString_alwaysParameters(md, szLogin, szPassword) ==
  LET parameters == prepareRequestParamString(md, szLogin, szPassword)
  IN  CASE md.formType = FORM_GET ->
             [ method |-> "GET", resourcePath |-> PrintS(md.resourcePath), query |-> parameters,
               hostHeader |-> md.hostHeader, userAgentHeader |-> md.userAgentHeader,
               customHeaders |-> md.customHeaders, cookieJar |-> md.cookieJar,
               nParameters |-> 0, body |-> <<>> ]
        [] md.formType = FORM_POST ->
             [ method |-> "POST", resourcePath |-> PrintS(md.resourcePath), query |-> <<>>,
               hostHeader |-> md.hostHeader, userAgentHeader |-> md.userAgentHeader,
               customHeaders |-> md.customHeaders, cookieJar |-> md.cookieJar,
               nParameters |-> Len(parameters), body |-> parameters ]
        [] OTHER -> NoRequest

\* The arguments handed to GET_REQUEST_FMT_STR or POST_REQUEST_FMT_STR: the
\* parameter string is part of the request line for GET (query) and the body
\* for POST, where nParameters is the Content-Length.
prepareRequestString(md, szLogin, szPassword) ==
  LET parameters == IF md.changedRequestType THEN <<>> ELSE prepareRequestParamString(md, szLogin, szPassword)
      nParameters == IF md.changedRequestType THEN 0 ELSE Len(parameters)
  IN  CASE md.formType = FORM_GET ->
             [ method |-> "GET", resourcePath |-> PrintS(md.resourcePath), query |-> parameters,
               hostHeader |-> md.hostHeader, userAgentHeader |-> md.userAgentHeader,
               customHeaders |-> md.customHeaders, cookieJar |-> md.cookieJar,
               nParameters |-> 0, body |-> <<>> ]
        [] md.formType = FORM_POST ->
             [ method |-> "POST", resourcePath |-> PrintS(md.resourcePath), query |-> <<>>,
               hostHeader |-> md.hostHeader, userAgentHeader |-> md.userAgentHeader,
               customHeaders |-> md.customHeaders, cookieJar |-> md.cookieJar,
               nParameters |-> nParameters, body |-> parameters ]
        [] OTHER -> NoRequest

\* ------------------------------------------------------------ host framework

LOGIN_RESULT_UNKNOWN == "LOGIN_RESULT_UNKNOWN"

LOGIN_RESULT_SUCCESS == "LOGIN_RESULT_SUCCESS"

LOGIN_RESULT_FAIL == "LOGIN_RESULT_FAIL"

CREDENTIAL_SAME_USER == "CREDENTIAL_SAME_USER"

CREDENTIAL_NEW_USER == "CREDENTIAL_NEW_USER"

CREDENTIAL_DONE == "CREDENTIAL_DONE"

\* The credential pairs the host's iterator hands out, in order.
Creds ==
  << [pUser |-> C("alice"), pPass |-> C("secret")],
     [pUser |-> C("alice"), pPass |-> C("p@ss")],
     [pUser |-> C("bob"), pPass |-> C("Hunter2")] >>

\* sLogin as the module sees it: iResult and the verdicts recorded so far.
newLogin == [iResult |-> LOGIN_RESULT_UNKNOWN, results |-> <<>>]

\* recordVerdict: the host records the result held in the login for the password.
setPassResult(login, pPass) ==
  [login EXCEPT !.results = Append(@, [pPass |-> pPass, iResult |-> login.iResult])]

\* nextCredential: psCredSet after a successful getNextCredSet.
getNextCredSet(psCredSet) ==
  LET n == psCredSet.idx + 1
  IN  IF n > Len(Creds) THEN [idx |-> n, iStatus |-> CREDENTIAL_DONE]
      ELSE IF Creds[n].pUser # Creds[psCredSet.idx].pUser THEN [idx |-> n, iStatus |-> CREDENTIAL_NEW_USER]
      ELSE [idx |-> n, iStatus |-> CREDENTIAL_SAME_USER]

\* The descriptor a successful connect returns: the lowest free one.
FirstSocket == 3

medusaConnect(openSockets) == MinOf({fd \in FirstSocket..(FirstSocket + Cardinality(openSockets)) : fd \notin openSockets})

\* ----------------------------------------------------------------- tryLogin

MSTATE_INITIALIZE == "MSTATE_INITIALIZE"

MSTATE_NEW == "MSTATE_NEW"

MSTATE_RUNNING == "MSTATE_RUNNING"

MSTATE_EXITING == "MSTATE_EXITING"

MSTATE_COMPLETE == "MSTATE_COMPLETE"

_setPasswordHelper_keepResult(login, password, result) == setPassResult(login, password)

_setPasswordHelper(login, password, result) == setPassResult([login EXCEPT !.iResult = result], password)

\* case HTTP_OK with changedRequestType set: back to POST, the old path
\* restored, the jar emptied.
HttpOkReset_keepJar(md) ==
  [md EXCEPT !.changedRequestType = FALSE, !.formType = FORM_POST,
             !.resourcePath = md.resourcePathOld, !.resourcePathOld = NULL]

HttpOkReset(md) ==
  [md EXCEPT !.changedRequestType = FALSE, !.formType = FORM_POST,
             !.resourcePath = md.resourcePathOld, !.resourcePathOld = NULL,
             !.cookieJar = <<>>]

HttpOk_alwaysRestores(md) == HttpOkReset(md)

\* case HTTP_OK: the reset only "if we had to follow a redirect on the
\* previous cycle", that is when changedRequestType is set.
HttpOk(md) == IF md.changedRequestType THEN HttpOkReset(md) ELSE md

\* "Change the request method to GET for 301 and 302".
ChangeRequestMethod_always(md, statusCode) ==
  IF md.formType = FORM_POST
  THEN [md EXCEPT !.changedRequestType = TRUE, !.formType = FORM_GET]
  ELSE md

ChangeRequestMethod(md, statusCode) ==
  IF md.formType = FORM_POST /\ statusCode \in {HTTP_MOVED_PERMANENTLY, HTTP_FOUND}
  THEN [md EXCEPT !.changedRequestType = TRUE, !.formType = FORM_GET]
  ELSE md

\* case 301, 302, 307, 308: what the branch does to the module data. Without
\* a Location header it returns before anything is changed.
FollowRedirect_cookiesFirst(md, statusCode, pReceiveBuffer) ==
  LET newLocation == findLocationHeaderValue(pReceiveBuffer)
      withCookies == _setCookiesFromResponse(md, pReceiveBuffer)
  IN  IF ~newLocation.found THEN withCookies
      ELSE ChangeRequestMethod(_resolveLocationPath(newLocation.value, withCookies), statusCode)

FollowRedirect(md, statusCode, pReceiveBuffer) ==
  LET newLocation == findLocationHeaderValue(pReceiveBuffer)
  IN  IF ~newLocation.found THEN md
      ELSE ChangeRequestMethod(_setCookiesFromResponse(_resolveLocationPath(newLocation.value, md), pReceiveBuffer), statusCode)

\* The deny-signal loop over the buffers medusaReceiveLine returns: response[1]
\* is the buffer the status was parsed from; the loop stops at the first
\* match, at an empty buffer, or when the response ends (NULL).
DenySignalFound_caseSensitive(denySignal, response) ==
  \E i \in 1..Len(response) :
     /\ \A j \in 1..i : response[j] # <<>>
     /\ \E k \in 1..(Len(response[i]) - Len(denySignal) + 1) : SubSeq(response[i], k, k + Len(denySignal) - 1) = denySignal

DenySignalFound(denySignal, response) ==
  \E i \in 1..Len(response) :
     /\ \A j \in 1..i : response[j] # <<>>
     /\ strcasestr(response[i], denySignal) # 0

\* One round-trip. response is the sequence of buffers the server's answer
\* arrives in (<<>>: the first medusaReceiveLine returns NULL); sendOK is the
\* outcome of medusaSend. The result holds the state returned, the module
\* data and login afterwards, and for the record: the request built, whether
\* it was sent, the status parsed and the branch taken (outcome).
\*
\* _request returns MSTATE_EXITING (not 0) for an unknown form type and for a
\* failed send; tryLogin tests its result for 0 only, goes on with
\* pReceiveBuffer = NULL and leaves through the HTTP_STATUS_PARSE_ERR branch.
tryLogin(md, login, szLogin, szPassword, sendOK, response) ==
  LET request == prepareRequestString(md, szLogin, szPassword)
      pReceiveBuffer == IF response = <<>> THEN NULL ELSE response[1]
      statusCode == parseHttpStatusCode(pReceiveBuffer)
      newLocation == findLocationHeaderValue(pReceiveBuffer)
      Ret(st, md2, login2, req, sent, code, outcome) ==
        [ nState |-> st, md |-> md2, login |-> login2, request |-> req, sent |-> sent,
          statusCode |-> code, outcome |-> outcome ]
  IN  IF md.formType \notin {FORM_GET, FORM_POST}
        THEN Ret(MSTATE_EXITING, md, login, NoRequest, FALSE, HTTP_STATUS_PARSE_ERR, "FORM_UNKNOWN")
      ELSE IF ~sendOK
        THEN Ret(MSTATE_EXITING, md, _setPasswordHelper(login, szPassword, LOGIN_RESULT_UNKNOWN),
                 request, FALSE, HTTP_STATUS_PARSE_ERR, "SEND_FAILED")
      ELSE IF pReceiveBuffer = NULL
        THEN Ret(MSTATE_EXITING, md, _setPasswordHelper(login, szPassword, LOGIN_RESULT_UNKNOWN),
                 request, TRUE, HTTP_STATUS_PARSE_ERR, "NO_DATA")
      ELSE IF statusCode = HTTP_STATUS_PARSE_ERR
        THEN Ret(MSTATE_EXITING, md, login, request, TRUE, statusCode, "PARSE_ERR")
      ELSE IF statusCode = HTTP_OK
        THEN LET md2 == HttpOk(md)
                 iResult == IF DenySignalFound(md2.denySignal, response) THEN LOGIN_RESULT_FAIL ELSE LOGIN_RESULT_SUCCESS
             IN  Ret(MSTATE_NEW, md2, setPassResult([login EXCEPT !.iResult = iResult], szPassword),
                     request, TRUE, statusCode, "OK")
      ELSE IF statusCode \in RedirectCodes
        THEN IF ~newLocation.found
               THEN Ret(MSTATE_EXITING, FollowRedirect(md, statusCode, pReceiveBuffer),
                        _setPasswordHelper(login, szPassword, LOGIN_RESULT_UNKNOWN),
                        request, TRUE, statusCode, "NO_LOCATION")
               ELSE Ret(MSTATE_NEW, FollowRedirect(md, statusCode, pReceiveBuffer),
                        login, request, TRUE, statusCode, "REDIRECT")
      ELSE IF statusCode \in ClientErrorCodes
        THEN Ret(MSTATE_EXITING, md, _setPasswordHelper(login, szPassword, LOGIN_RESULT_UNKNOWN),
                 request, TRUE, statusCode, "CLIENT_ERROR")
      ELSE Ret(MSTATE_EXITING, md, _setPasswordHelper(login, szPassword, LOGIN_RESULT_UNKNOWN),
               request, TRUE, statusCode, "NOT_IMPL")

\* Whether the round-trip reads a NULL string or reads past the end of the
\* receive buffer (undefined behaviour): the request is formatted with a NULL
\* resourcePath, a relative Location is resolved against a NULL resourcePath,
\* or a header value is not followed by CR or LF inside the buffer.
UsesNull(md, sendOK, response) ==
  LET pReceiveBuffer == IF response = <<>> THEN NULL ELSE response[1]
      statusCode == parseHttpStatusCode(pReceiveBuffer)
      newLocation == findLocationHeaderValue(pReceiveBuffer)
  IN  \/ md.formType \in {FORM_GET, FORM_POST} /\ md.resourcePath = NULL
      \/ /\ sendOK
         /\ statusCode \in RedirectCodes
         /\ newLocation.found
         /\ \/ newLocation.overrun
            \/ CookieLoop(<<>>, pReceiveBuffer, 1).overrun
            \/ md.resourcePath = NULL /\ _pathType(StripParameters(newLocation.value)) = PATHTYPE_RELATIVE

\* ------------------------------------------------------------- initModule

\* strtok_r(str, delim, &saveptr) with saveptr at index pos of s: tok = NULL
\* when only delimiters are left, else the token and the index after the
\* delimiter that ends it.
strtok_r(s, pos, delim) ==
  LET start == MinOf({i \in pos..(Len(s) + 1) : i = Len(s) + 1 \/ s[i] \notin delim})
      ends == {i \in start..Len(s) : s[i] \in delim}
      stop == IF ends = {} THEN Len(s) + 1 ELSE MinOf(ends)
  IN  IF start > Len(s) THEN [tok |-> NULL, next |-> Len(s) + 1]
      ELSE [tok |-> SubSeq(s, start, stop - 1), next |-> IF stop > Len(s) THEN stop ELSE stop + 1]

\* strncasecmp(a, b, sizeof(b)) = 0: equal up to case, the NUL included.
strncasecmpEq(a, b) == LowerStr(a) = LowerStr(b)

\* The first strtok_r of FORM-DATA finds no token: pTemp is NULL and
\* strncasecmp reads it.
FormDataHasNoMethod(md) ==
  md.formData # NULL /\ md.formUserKey = NULL /\ strtok_r(md.formData, 1, {"?"}).tok = NULL

ParseFormData_noFallback(md) ==
  LET t1 == strtok_r(md.formData, 1, {"?"})
      t2 == strtok_r(md.formData, t1.next, {"&"})
      t3 == strtok_r(md.formData, t2.next, {"&"})
      t4 == strtok_r(md.formData, t3.next, {})
  IN  [md EXCEPT !.formType = IF strncasecmpEq(t1.tok, POST_STR) THEN FORM_POST
                              ELSE IF strncasecmpEq(t1.tok, GET_STR) THEN FORM_GET
                              ELSE FORM_UNKNOWN,
                 !.formUserKey = t2.tok,
                 !.formPassKey = t3.tok,
                 !.formRest = IF t4.tok # NULL THEN t4.tok ELSE <<>>]

\* The FORM-DATA branch: <method>?<user key>&<password key>&<rest>.
ParseFormData(md) ==
  LET t1 == strtok_r(md.formData, 1, {"?"})
      t2 == strtok_r(md.formData, t1.next, {"&"})
      t3 == strtok_r(md.formData, t2.next, {"&"})
      t4 == strtok_r(md.formData, t3.next, {})
      parsed ==
        IF md.formUserKey # NULL THEN md
        ELSE [md EXCEPT !.formType = IF strncasecmpEq(t1.tok, POST_STR) THEN FORM_POST
                                     ELSE IF strncasecmpEq(t1.tok, GET_STR) THEN FORM_GET
                                     ELSE FORM_UNKNOWN,
                        !.formUserKey = t2.tok,
                        !.formPassKey = t3.tok,
                        !.formRest = IF t4.tok # NULL THEN t4.tok ELSE md.formRest]
  IN  IF parsed.formType = FORM_UNKNOWN \/ parsed.formUserKey = NULL \/ parsed.formPassKey = NULL
      THEN [parsed EXCEPT !.formRest = <<>>,
                          !.formUserKey = MODULE_DEFAULT_USERNAME_KEY,
                          !.formPassKey = MODULE_DEFAULT_PASSWORD_KEY,
                          !.formType = FORM_POST]
      ELSE parsed

\* "<host>:<port>" of the target.
DefaultHostHeader == C("target:80")

OrDefault(str, default) == IF str = NULL THEN default ELSE str

\* case MSTATE_INITIALIZE: the options given, or their defaults.
InitializeModuleData(md) ==
  LET form == IF md.formData = NULL
              THEN [md EXCEPT !.formRest = OrDefault(md.formRest, <<>>),
                              !.formUserKey = OrDefault(md.formUserKey, MODULE_DEFAULT_USERNAME_KEY),
                              !.formPassKey = OrDefault(md.formPassKey, MODULE_DEFAULT_PASSWORD_KEY),
                              !.formType = FORM_POST]
              ELSE ParseFormData(md)
  IN  [form EXCEPT !.resourcePath = OrDefault(md.resourcePath, <<"/">>),
                   !.hostHeader = OrDefault(md.hostHeader, DefaultHostHeader),
                   !.userAgentHeader = OrDefault(md.userAgentHeader, MODULE_DEFAULT_USER_AGENT),
                   !.denySignal = OrDefault(md.denySignal, MODULE_DEFAULT_DENY_SIGNAL),
                   !.customHeaders = OrDefault(md.customHeaders, <<>>),
                   !.cookieJar = OrDefault(md.cookieJar, <<>>)]

\* "if (hSocket > 0) medusaDisconnect(hSocket)": the sockets left open.
Disconnect_never(hSocket, sockets) == sockets

Disconnect(hSocket, sockets) == IF hSocket > 0 THEN sockets \ {hSocket} ELSE sockets

AfterTryLogin_keepsState(nStateTry, iResult, psCredSet, getOK) ==
  IF iResult = LOGIN_RESULT_UNKNOWN \/ ~getOK THEN [nState |-> nStateTry, psCredSet |-> psCredSet]
  ELSE [nState |-> nStateTry, psCredSet |-> getNextCredSet(psCredSet)]

AfterTryLogin_sameConnection(nStateTry, iResult, psCredSet, getOK) ==
  IF iResult = LOGIN_RESULT_UNKNOWN THEN [nState |-> nStateTry, psCredSet |-> psCredSet]
  ELSE IF ~getOK THEN [nState |-> MSTATE_EXITING, psCredSet |-> psCredSet]
  ELSE LET next == getNextCredSet(psCredSet)
       IN  [ nState |-> IF next.iStatus = CREDENTIAL_DONE THEN MSTATE_EXITING
                        ELSE IF next.iStatus = CREDENTIAL_NEW_USER THEN MSTATE_NEW
                        ELSE MSTATE_RUNNING,
             psCredSet |-> next ]

AfterTryLogin_alwaysAdvances(nStateTry, iResult, psCredSet, getOK) ==
  IF ~getOK THEN [nState |-> MSTATE_EXITING, psCredSet |-> psCredSet]
  ELSE LET next == getNextCredSet(psCredSet)
       IN  [ nState |-> IF next.iStatus = CREDENTIAL_DONE THEN MSTATE_EXITING
                        ELSE IF next.iStatus = CREDENTIAL_NEW_USER THEN MSTATE_NEW
                        ELSE nStateTry,
             psCredSet |-> next ]

\* case MSTATE_RUNNING after tryLogin has returned nStateTry: the iterator is
\* advanced when iResult is not LOGIN_RESULT_UNKNOWN; getOK is the outcome of
\* getNextCredSet.
AfterTryLogin(nStateTry, iResult, psCredSet, getOK) ==
  IF iResult = LOGIN_RESULT_UNKNOWN THEN [nState |-> nStateTry, psCredSet |-> psCredSet]
  ELSE IF ~getOK THEN [nState |-> MSTATE_EXITING, psCredSet |-> psCredSet]
  ELSE LET next == getNextCredSet(psCredSet)
       IN  [ nState |-> IF next.iStatus = CREDENTIAL_DONE THEN MSTATE_EXITING
                        ELSE IF next.iStatus = CREDENTIAL_NEW_USER THEN MSTATE_NEW
                        ELSE nStateTry,
             psCredSet |-> next ]

\* ---------------------------------------------------------------- responses

Resp200Welcome == <<C("HTTP/1.1 200 OK\r\n\r\n"), C("Welcome!\r\n")>>

Resp200Deny == <<C("HTTP/1.1 200 OK\r\n\r\n"), C("<p>LOGIN INCORRECT</p>\r\n")>>

Resp200DenyUnread == <<C("HTTP/1.1 200 OK\r\n"), <<>>, C("Login incorrect\r\n")>>

Resp302Absolute == <<C("HTTP/1.1 302 Found\r\nLocation: /app/home\r\n\r\n")>>

Resp302RelativeCookies == <<C("HTTP/1.1 302 Found\r\nLocation: next?step=2\r\nSet-Cookie: a=1\r\nSet-Cookie: b=2\r\n\r\n")>>

Resp301Uri == <<C("HTTP/1.1 301 Moved Permanently\r\nLocation: http://other/x\r\n\r\n")>>

Resp307AbsoluteCookie == <<C("HTTP/1.1 307 Temporary Redirect\r\nLocation: /v2/login\r\nSet-Cookie: s=9\r\n\r\n")>>

Resp308Relative == <<C("HTTP/1.1 308 Permanent Redirect\r\nlocation: v3\r\n\r\n")>>

Resp302EmptyCookie == <<C("HTTP/1.1 302 Found\r\nLocation: /x\r\nSet-Cookie:\r\nSet-Cookie: b=2\r\n\r\n")>>

Resp302NoLocation == <<C("HTTP/1.1 302 Found\r\nSet-Cookie: a=1\r\n\r\n")>>

Resp302LocationAtEnd == <<C("HTTP/1.1 302 Found\r\nLocation:\r\n")>>

Resp401 == <<C("HTTP/1.1 401 Unauthorized\r\n\r\n")>>

Resp999 == <<C("HTTP/1.1 999 Fictional\r\n")>>

RespGarbage == <<C("garbage\r\n")>>

RespEmptyLine == << <<>> >>

RespNone == <<>>

\* What the server may answer to one request.
Responses ==
  { Resp200Welcome, Resp200Deny, Resp200DenyUnread, Resp302Absolute, Resp302RelativeCookies,
    Resp301Uri, Resp307AbsoluteCookie, Resp308Relative, Resp302EmptyCookie, Resp302NoLocation,
    Resp302LocationAtEnd,
    Resp401, Resp999, RespGarbage, RespEmptyLine, RespNone }

\* ----------------------------------------------------------------------- go

\* setOption: the rest of the argument after "<option>:" is stored in field
\* dst; nothing is stored when the rest is empty.
setOption(md, dst, arg, saveptr1) ==
  LET optarg == strtok_r(arg, saveptr1, {}).tok
  IN  IF optarg # NULL THEN [md EXCEPT ![dst] = optarg] ELSE md

AddCustomHeader_noLineEnd(md, arg, saveptr1) ==
  LET option == strtok_r(arg, saveptr1, {}).tok
  IN  IF option = NULL THEN md
      ELSE [md EXCEPT !.customHeaders = (IF md.nCustomHeaders = 0 THEN <<>> ELSE md.customHeaders) \o option,
                      !.nCustomHeaders = md.nCustomHeaders + 1]

\* CUSTOM-HEADER:<custom header>: the header and CRLF are appended.
AddCustomHeader(md, arg, saveptr1) ==
  LET option == strtok_r(arg, saveptr1, {}).tok
  IN  IF option = NULL THEN md
      ELSE [md EXCEPT !.customHeaders = (IF md.nCustomHeaders = 0 THEN <<>> ELSE md.customHeaders) \o option \o CRLF,
                      !.nCustomHeaders = md.nCustomHeaders + 1]

\* One pass of the loop over argv in go().
ProcessOption(md, arg) ==
  LET t == strtok_r(arg, 1, {":"})
      option == t.tok
  IN  CASE option = C("FORM") -> setOption(md, "resourcePath", arg, t.next)
        [] option = C("DENY-SIGNAL") -> setOption(md, "denySignal", arg, t.next)
        [] option = C("FORM-DATA") -> setOption(md, "formData", arg, t.next)
        [] option = C("USER-AGENT") -> setOption(md, "userAgentHeader", arg, t.next)
        [] option = C("CUSTOM-HEADER") -> AddCustomHeader(md, arg, t.next)
        [] OTHER -> md

\* The module data go() hands to initModule for the arguments argv.
RECURSIVE go(_, _)
go(md, argv) == IF argv = <<>> THEN md ELSE go(ProcessOption(md, Head(argv)), Tail(argv))

\* Module arguments (-m options) of an invocation.
Argvs ==
  { <<>>,
    <<C("FORM:/app/login")>>,
    <<C("FORM:/app/login"), C("FORM-DATA:get?user=&pass=&submit=1"), C("CUSTOM-HEADER:X-A: 1")>>,
    <<C("FORM-DATA:put?user=&pass="), C("CUSTOM-HEADER:X-A: 1"), C("CUSTOM-HEADER:X-B: 2")>>,
    <<C("FORM-DATA:post?user="), C("CUSTOM-HEADER:"), C("DENY-SIGNAL:")>>,
    <<C("FORM-DATA:?")>> }

\* -------------------------------------------------------------------- state

\* Whether the string part occurs in the string whole.
Occurs(part, whole) ==
  \E k \in 1..(Len(whole) - Len(part) + 1) : SubSeq(whole, k, k + Len(part) - 1) = part

\* Whether the request carries the pair: the login and the encoded password
\* stand in its query or its body.
RequestCarries(request, szLogin, szPassword) ==
  /\ request # NoRequest
  /\ Occurs(szLogin, request.query \o request.body)
  /\ Occurs(urlencodeup(szPassword), request.query \o request.body)

VARIABLES nState, ret, hSocket, openSockets, moduleData, login, psCredSet, nTrips, lastTrip, chain, jarPairs, builtFor, credsSentFor, enc, call, nSent

vars == <<nState, ret, hSocket, openSockets, moduleData, login, psCredSet, nTrips, lastTrip, chain, jarPairs, builtFor, credsSentFor, enc, call, nSent>>

\* History: no round-trip made yet / no redirect chain under way.
NoTrip == [n |-> 0, outcome |-> "NONE"]

NoChain == [len |-> 0]

\* nSent counts the requests sent over the connection hSocket names.
\* credsSentFor holds the pairs (by index) for which a request that carries the
\* pair has been sent.
\* enc holds a call of urlencodeup looked at on its own; none in an invocation.
NoEnc == [stage |-> "none"]

\* call holds a call of parseHttpStatusCode or of _resolveLocationPath looked
\* at on its own; none in an invocation.
NoCall == [fn |-> "none"]

\* initModule is entered with the module data go() built and the first
\* credential pair of a host that has one; nothing is connected.
Init ==
  /\ nState = MSTATE_INITIALIZE
  /\ ret = "NONE"
  /\ hSocket = -1
  /\ openSockets = {}
  /\ \E argv \in Argvs : moduleData = go(newModuleData, argv)
  /\ login = newLogin
  /\ psCredSet = [idx |-> 1, iStatus |-> CREDENTIAL_NEW_USER]
  /\ nTrips = 0
  /\ lastTrip = NoTrip
  /\ chain = NoChain
  /\ jarPairs = {}
  /\ builtFor = {}
  /\ credsSentFor = {}
  /\ enc = NoEnc
  /\ call = NoCall
  /\ nSent = 0

Running == ret = "NONE"

StateInitialize ==
  /\ Running
  /\ UNCHANGED <<enc, call, nSent>>
  /\ nState = MSTATE_INITIALIZE
  /\ IF FormDataHasNoMethod(moduleData)
       THEN ret' = "CRASHED" /\ UNCHANGED <<nState, moduleData>>
       ELSE /\ moduleData' = InitializeModuleData(moduleData)
            /\ nState' = MSTATE_NEW
            /\ UNCHANGED ret
  /\ UNCHANGED <<hSocket, openSockets, login, psCredSet, nTrips, lastTrip, chain, jarPairs, builtFor, credsSentFor>>

\* case MSTATE_NEW: the old socket closed, a new connection opened; a failed
\* connect records LOGIN_RESULT_UNKNOWN and returns FAILURE.
StateNew ==
  /\ Running
  /\ UNCHANGED <<enc, call>>
  /\ nState = MSTATE_NEW
  /\ \E connected \in BOOLEAN :
       LET closed == Disconnect(hSocket, openSockets)
       IN  IF connected
             THEN /\ hSocket' = medusaConnect(closed)
                  /\ openSockets' = closed \cup {medusaConnect(closed)}
                  /\ nSent' = 0
                  /\ nState' = MSTATE_RUNNING
                  /\ UNCHANGED <<ret, login>>
             ELSE /\ hSocket' = -1
                  /\ openSockets' = closed
                  /\ nSent' = 0
                  /\ login' = setPassResult([login EXCEPT !.iResult = LOGIN_RESULT_UNKNOWN], Creds[psCredSet.idx].pPass)
                  /\ ret' = "FAILURE"
                  /\ UNCHANGED nState
  /\ UNCHANGED <<moduleData, psCredSet, nTrips, lastTrip, chain, jarPairs, builtFor, credsSentFor>>

\* The redirect chain under way after a round-trip: a chain is a run of
\* consecutive redirect responses that were followed; last holds what the
\* latest of them answered and the path and host it was resolved against.
ChainAfter(ch, md, r, response, undefinedRead) ==
  IF r.outcome # "REDIRECT" THEN NoChain
  ELSE [ len |-> ch.len + 1,
         startType |-> IF ch.len = 0 THEN md.formType ELSE ch.startType,
         startPath |-> IF ch.len = 0 THEN md.resourcePath ELSE ch.startPath,
         changes |-> (IF ch.len = 0 THEN 0 ELSE ch.changes) + (IF r.md.formType # md.formType THEN 1 ELSE 0),
         demoting |-> (IF ch.len = 0 THEN 0 ELSE ch.demoting) + (IF r.statusCode \in {HTTP_MOVED_PERMANENTLY, HTTP_FOUND} THEN 1 ELSE 0),
         startHost |-> IF ch.len = 0 THEN md.hostHeader ELSE ch.startHost,
         last |-> [ response |-> response, basePath |-> md.resourcePath, hostHeader |-> md.hostHeader,
                    undefinedRead |-> undefinedRead ] ]

\* case MSTATE_RUNNING: one round-trip of tryLogin for the current pair, then
\* the iterator. A round-trip that reads a NULL string or past its buffer may
\* also end the process.
StateRunningWith(responses, maxTrips) ==
  /\ Running
  /\ UNCHANGED <<enc, call>>
  /\ nState = MSTATE_RUNNING
  /\ nTrips < maxTrips
  /\ \E sendOK \in BOOLEAN :
     \E response \in (IF sendOK THEN responses ELSE {RespNone}) :
     \E r \in {tryLogin(moduleData, login, Creds[psCredSet.idx].pUser, Creds[psCredSet.idx].pPass, sendOK, response)} :
     \E getOK \in (IF r.login.iResult # LOGIN_RESULT_UNKNOWN THEN BOOLEAN ELSE {TRUE}) :
     \E undefinedRead \in {UsesNull(moduleData, sendOK, response)} :
     \E crash \in (IF undefinedRead THEN BOOLEAN ELSE {FALSE}) :
       LET after == AfterTryLogin(r.nState, r.login.iResult, psCredSet, getOK)
       IN  IF crash
             THEN /\ ret' = "CRASHED"
                  /\ UNCHANGED <<nState, moduleData, login, psCredSet, nTrips, lastTrip, chain, jarPairs, builtFor, credsSentFor, nSent>>
             ELSE /\ moduleData' = r.md
                  /\ login' = r.login
                  /\ nState' = after.nState
                  /\ psCredSet' = after.psCredSet
                  /\ nTrips' = nTrips + 1
                  /\ lastTrip' = [ n |-> nTrips + 1, outcome |-> r.outcome, statusCode |-> r.statusCode,
                                   idx |-> psCredSet.idx, sent |-> r.sent, request |-> r.request,
                                   response |-> response, returned |-> r.nState,
                                   mdBefore |-> moduleData, loginBefore |-> login, loginAfter |-> r.login,
                                   firstOfPair |-> psCredSet.idx \notin builtFor,
                                   undefinedRead |-> undefinedRead,
                                   jarPairsBefore |-> jarPairs, chainBefore |-> chain,
                                   advanced |-> after.psCredSet # psCredSet,
                                   nStateAfter |-> after.nState,
                                   prev |-> IF lastTrip.n = 0 THEN NoTrip
                                            ELSE [ n |-> lastTrip.n, outcome |-> lastTrip.outcome,
                                                   statusCode |-> lastTrip.statusCode, idx |-> lastTrip.idx,
                                                   request |-> lastTrip.request, response |-> lastTrip.response,
                                                   undefinedRead |-> lastTrip.undefinedRead,
                                                   chainBefore |-> lastTrip.chainBefore ] ]
                  /\ chain' = ChainAfter(chain, moduleData, r, response, undefinedRead)
                  /\ jarPairs' = IF r.md.cookieJar = <<>> THEN {}
                                 ELSE IF r.md.cookieJar # moduleData.cookieJar THEN jarPairs \cup {psCredSet.idx}
                                 ELSE jarPairs
                  /\ builtFor' = IF r.request # NoRequest THEN builtFor \cup {psCredSet.idx} ELSE builtFor
                  /\ nSent' = IF r.sent THEN nSent + 1 ELSE nSent
                  /\ credsSentFor' = IF r.sent /\ RequestCarries(r.request, Creds[psCredSet.idx].pUser, Creds[psCredSet.idx].pPass)
                                     THEN credsSentFor \cup {psCredSet.idx} ELSE credsSentFor
                  /\ UNCHANGED ret
  /\ UNCHANGED <<hSocket, openSockets>>

\* A round-trip answered with any of Responses, at most MaxTrips of them.
StateRunning == StateRunningWith(Responses, MaxTrips)

\* case MSTATE_EXITING, then the loop ends at MSTATE_COMPLETE and initModule
\* returns SUCCESS.
StateExiting ==
  /\ Running
  /\ UNCHANGED <<enc, call>>
  /\ nState = MSTATE_EXITING
  /\ openSockets' = Disconnect(hSocket, openSockets)
  /\ nSent' = 0
  /\ hSocket' = -1
  /\ nState' = MSTATE_COMPLETE
  /\ ret' = "SUCCESS"
  /\ UNCHANGED <<moduleData, login, psCredSet, nTrips, lastTrip, chain, jarPairs, builtFor, credsSentFor>>

Next == StateInitialize \/ StateNew \/ StateRunning \/ StateExiting

Spec == Init /\ [][Next]_vars

\* The while loop of initModule runs the case of the current state for as long
\* as the state is not MSTATE_COMPLETE. The case of MSTATE_EXITING waits for
\* no peer (a disconnect and two assignments): once entered it is carried out.
LiveSpec == Spec /\ WF_vars(StateExiting)

\* ------------------------- a server that redirects only so many times in a row

MaxRedirects == 1

\* What such a server answers: verdicts, redirects that change the method or
\* keep it, a client error, or nothing.
FinalResponses == {Resp200Welcome, Resp200Deny, Resp401, RespNone}

RedirectResponses == {Resp302Absolute, Resp307AbsoluteCookie}

\* The iterator hands out Len(Creds) pairs and every pair takes at most
\* MaxRedirects redirects and one other answer.
MostTrips == Len(Creds) * (MaxRedirects + 1)

\* case MSTATE_RUNNING against that server: a redirect is among its answers
\* only while fewer than MaxRedirects redirects were followed in a row.
StateRunningFewRedirects ==
  StateRunningWith(IF chain.len < MaxRedirects THEN FinalResponses \cup RedirectResponses ELSE FinalResponses,
                   MostTrips)

TermNext == StateInitialize \/ StateNew \/ StateRunningFewRedirects \/ StateExiting

\* The loop of initModule carries out the case of its state; connect, send
\* and receive return (with a result or a failure) rather than block for ever.
TermSpec ==
  /\ Init
  /\ [][TermNext]_vars
  /\ WF_vars(StateInitialize)
  /\ WF_vars(StateNew)
  /\ WF_vars(StateRunningFewRedirects)
  /\ WF_vars(StateExiting)

\* ------------------------------------------------- urlencodeup on its own

MaxEncLen == 3

\* Bytes of the strings handed to urlencodeup: letters, a digit, punctuation,
\* a space, a control character and bytes with the top bit set.
EncBytes == {"a", "Z", "5", "@", " ", "~", "\n", "<80>", "<E9>", "<FF>"}

RECURSIVE StringsUpTo(_)
StringsUpTo(n) ==
  IF n = 0 THEN {<<>>}
  ELSE LET shorter == StringsUpTo(n - 1)
       IN  shorter \cup {Append(str, c) : str \in shorter, c \in EncBytes}

\* A call of urlencodeup with any string of up to MaxEncLen bytes, in a build
\* whose char is signed or unsigned; no invocation of the module is under way.
EncInit ==
  /\ nState = MSTATE_COMPLETE
  /\ ret = "NONE"
  /\ hSocket = -1
  /\ openSockets = {}
  /\ moduleData = newModuleData
  /\ login = newLogin
  /\ psCredSet = [idx |-> 1, iStatus |-> CREDENTIAL_NEW_USER]
  /\ nTrips = 0
  /\ lastTrip = NoTrip
  /\ chain = NoChain
  /\ jarPairs = {}
  /\ builtFor = {}
  /\ credsSentFor = {}
  /\ call = NoCall
  /\ nSent = 0
  /\ \E szStr \in StringsUpTo(MaxEncLen), charSigned \in BOOLEAN :
       enc = [stage |-> "call", szStr |-> szStr, charSigned |-> charSigned]

\* urlencodeup returns szRet; a call that wrote past the end of szRet may
\* also end the process.
UrlEncode ==
  /\ enc.stage = "call"
  /\ \E r \in {urlencodeupOn(enc.szStr, enc.charSigned)} :
     \E crash \in (IF r.overflow THEN BOOLEAN ELSE {FALSE}) :
       enc' = IF crash THEN [enc EXCEPT !.stage = "crashed"]
              ELSE [stage |-> "return", szStr |-> enc.szStr, charSigned |-> enc.charSigned,
                    szRet |-> r.szRet, overflow |-> r.overflow]
  /\ UNCHANGED <<nState, ret, hSocket, openSockets, moduleData, login, psCredSet, nTrips, lastTrip, chain, jarPairs, builtFor, credsSentFor, call, nSent>>

EncNext == UrlEncode

EncSpec == EncInit /\ [][EncNext]_vars

\* ------- parseHttpStatusCode and _resolveLocationPath, each on its own

\* First lines of a response: a version, a gap, a status token and a tail.
StatusVersions == {C("HTTP/1.1"), C("HTTP/1.0"), <<>>}

StatusGaps == {<<>>, C(" "), C("  ")}

StatusTokens ==
  { C("200"), C("301"), C("302"), C("307"), C("308"), C("400"), C("401"), C("403"), C("404"),
    C("100"), C("204"), C("303"), C("500"), C("999"), C("0"), C("abc"), C("2x0"), C("OK"), <<>> }

StatusTails == {<<>>, C(" OK"), C("\r\n"), C(" Not Found\r\n")}

\* What parseHttpStatusCode may be handed: no buffer (NULL), an empty buffer,
\* or a first line.
StatusBuffers ==
  {NULL, <<>>} \cup {v \o g \o t \o e : v \in StatusVersions, g \in StatusGaps, t \in StatusTokens, e \in StatusTails}

\* Location header values: empty, a query only, absolute paths, URIs in
\* either case, the bare word http, and relative paths.
LocationTargets ==
  { <<>>, C("?"), C("?next=1"), C("/"), C("/app/home"), C("/a?b=1"), C("/a?b?c"), C("/?"),
    C("http://other/x"), C("HTTP://Other/x?y=1"), C("https://h"), C("hTTp:"), C("http"), C("http?x=1"),
    C("htt"), C("next"), C("next?step=2"), C("../up"), C("./here"), C("a/b/../c"), C("v3") }

\* The fields of the module data _resolveLocationPath reads or writes, as
\* they may stand after MSTATE_INITIALIZE and earlier redirects.
ResolveModuleDatas ==
  { [InitializeModuleData(newModuleData) EXCEPT !.resourcePath = path, !.resourcePathOld = old, !.hostHeader = host] :
      path \in {C("/"), C("/app/login"), C("/a/b/c/")},
      old \in {NULL, C("/app/login")},
      host \in {DefaultHostHeader, C("http://other/x")} }

\* One call, of parseHttpStatusCode with any buffer of StatusBuffers or of
\* _resolveLocationPath with any target and module data; no invocation of the
\* module is under way.
FnInit ==
  /\ nState = MSTATE_COMPLETE
  /\ ret = "NONE"
  /\ hSocket = -1
  /\ openSockets = {}
  /\ moduleData = newModuleData
  /\ login = newLogin
  /\ psCredSet = [idx |-> 1, iStatus |-> CREDENTIAL_NEW_USER]
  /\ nTrips = 0
  /\ lastTrip = NoTrip
  /\ chain = NoChain
  /\ jarPairs = {}
  /\ builtFor = {}
  /\ credsSentFor = {}
  /\ enc = NoEnc
  /\ nSent = 0
  /\ \/ \E buf \in StatusBuffers : call = [fn |-> "parseHttpStatusCode", stage |-> "call", buf |-> buf]
     \/ \E newLocation \in LocationTargets, md \in ResolveModuleDatas :
          call = [fn |-> "_resolveLocationPath", stage |-> "call", newLocation |-> newLocation, md |-> md]

ParseStatus ==
  /\ call.fn = "parseHttpStatusCode"
  /\ call.stage = "call"
  /\ call' = [fn |-> call.fn, stage |-> "return", buf |-> call.buf, ret |-> parseHttpStatusCode(call.buf)]
  /\ UNCHANGED <<nState, ret, hSocket, openSockets, moduleData, login, psCredSet, nTrips, lastTrip, chain, jarPairs, builtFor, credsSentFor, enc, nSent>>

\* _resolveLocationPath returns nothing: mdAfter is the module data it leaves
\* and pathType what its switch saw.
ResolveLocation ==
  /\ call.fn = "_resolveLocationPath"
  /\ call.stage = "call"
  /\ call' = [fn |-> call.fn, stage |-> "return", newLocation |-> call.newLocation, md |-> call.md,
              pathType |-> _pathType(StripParameters(call.newLocation)),
              mdAfter |-> _resolveLocationPath(call.newLocation, call.md)]
  /\ UNCHANGED <<nState, ret, hSocket, openSockets, moduleData, login, psCredSet, nTrips, lastTrip, chain, jarPairs, builtFor, credsSentFor, enc, nSent>>

FnNext == ParseStatus \/ ResolveLocation

FnSpec == FnInit /\ [][FnNext]_vars

\* ------------------------------------------------------------------- claims

\* The verdict recorded last in a login, as the host sees it.
LastResult(l) == l.results[Len(l.results)]

\* The round-trip made last recorded exactly one verdict, for the password of
\* the pair it was made for.
RecordedOne(t) ==
  /\ Len(t.loginAfter.results) = Len(t.loginBefore.results) + 1
  /\ LastResult(t.loginAfter).pPass = Creds[t.idx].pPass

\* The 200 OK that completes a chain in which the method was changed.
CompletedChangedChain == lastTrip.outcome = "OK" /\ lastTrip.mdBefore.changedRequestType

\* C1: after a POST was demoted to GET by a 301/302 and the chain completes
\* with 200 OK, formType is POST again and resourcePath is the path that was
\* in effect before the first redirect of the chain.
C1_PathRestoredAfterChain ==
  (CompletedChangedChain /\ lastTrip.chainBefore.len > 0)
    => /\ moduleData.formType = FORM_POST
       /\ moduleData.resourcePath = lastTrip.chainBefore.startPath

\* C2: a round-trip that ends in a followed redirect (here: one whose Location
\* header is terminated inside the buffer) records no verdict and does not
\* advance the credential iterator: the pair stays the current one.
C2_RedirectKeepsPair ==
  (lastTrip.outcome = "REDIRECT" /\ ~lastTrip.undefinedRead)
    => /\ lastTrip.loginAfter.results = lastTrip.loginBefore.results
       /\ ~lastTrip.advanced
       /\ psCredSet.idx = lastTrip.idx

TerminalOutcomes == {"SEND_FAILED", "NO_DATA", "PARSE_ERR", "NO_LOCATION", "CLIENT_ERROR", "NOT_IMPL"}

\* C3: every terminal error of a round-trip records LOGIN_RESULT_UNKNOWN for
\* the current password and stops the invocation (EXITING, then COMPLETE).
C3_TerminalErrorRecordsUnknown ==
  lastTrip.outcome \in TerminalOutcomes
    => /\ RecordedOne(lastTrip)
       /\ LastResult(lastTrip.loginAfter).iResult = LOGIN_RESULT_UNKNOWN
       /\ nState \in {MSTATE_EXITING, MSTATE_COMPLETE}

\* C4: a round-trip whose outcome is neither a redirect nor a 4xx status
\* records exactly one verdict for the current password.
C4_ExactlyOneVerdict ==
  (lastTrip.n > 0 /\ lastTrip.outcome \notin {"REDIRECT", "CLIENT_ERROR"}) => RecordedOne(lastTrip)

\* C5: right after a 200 OK processed with changedRequestType set, formType is
\* POST, changedRequestType is clear, resourcePathOld is absent and the
\* cookie jar is empty.
C5_ResetAfterChangedChain ==
  CompletedChangedChain
    => /\ moduleData.formType = FORM_POST
       /\ moduleData.changedRequestType = FALSE
       /\ moduleData.resourcePathOld = NULL
       /\ moduleData.cookieJar = <<>>

C5_Witness ==
  /\ CompletedChangedChain
  /\ lastTrip.mdBefore.cookieJar # <<>>
  /\ lastTrip.mdBefore.resourcePathOld # NULL
  /\ lastTrip.mdBefore.formType = FORM_GET

\* C6: a 307/308 response never changes formType; no redirect response
\* changes GET to POST; within one chain the 301/302 responses change POST to
\* GET at most once, and exactly once when the chain started as POST (and
\* holds a 301 or 302).
C6_MethodChangedOncePerChain ==
  /\ (lastTrip.n > 0 /\ lastTrip.statusCode \in {HTTP_TEMPORARY_REDIRECT, HTTP_PERMANENT_REDIRECT})
       => moduleData.formType = lastTrip.mdBefore.formType
  /\ (lastTrip.n > 0 /\ lastTrip.statusCode \in RedirectCodes)
       => ~(lastTrip.mdBefore.formType = FORM_GET /\ moduleData.formType = FORM_POST)
  /\ chain.len > 0
       => /\ chain.changes <= 1
          /\ (chain.startType = FORM_POST /\ chain.demoting >= 1) => chain.changes = 1
          /\ chain.changes = 1 => (chain.startType = FORM_POST /\ moduleData.formType = FORM_GET)

C6_Witness ==
  /\ chain.len = 2
  /\ chain.startType = FORM_POST
  /\ chain.demoting = 2
  /\ chain.changes = 1
  /\ lastTrip.statusCode = HTTP_FOUND

\* C7: once the configuration is finalized, resourcePathOld is non-absent if
\* and only if changedRequestType is true.
C7_OldPathIffChanged ==
  nState # MSTATE_INITIALIZE => ((moduleData.resourcePathOld # NULL) <=> moduleData.changedRequestType)

\* C8: when the first request of a pair is built, the cookie jar holds no
\* cookie collected during the attempt of an earlier pair.
C8_NoCookiesFromEarlierPair ==
  (lastTrip.n > 0 /\ lastTrip.firstOfPair /\ lastTrip.request # NoRequest)
    => /\ lastTrip.jarPairsBefore \subseteq {lastTrip.idx}
       /\ lastTrip.request.cookieJar = <<>>

\* The buffers the deny-signal scan reads: the response up to its end or its
\* first empty buffer.
LinesRead(response) == {i \in 1..Len(response) : \A j \in 1..i : response[j] # <<>>}

ContainsIgnoringCase(line, signal) ==
  \E k \in 1..(Len(line) - Len(signal) + 1) :
     \A j \in 1..Len(signal) : tolower(line[k + j - 1]) = tolower(signal[j])

\* C9: on 200 OK the verdict is FAIL if and only if a response line that was
\* read contains denySignal as a case-insensitive substring, SUCCESS
\* otherwise, and it is recorded with the password that was tested.
C9_DenySignalDecidesVerdict ==
  (lastTrip.n > 0 /\ lastTrip.statusCode = HTTP_OK)
    => /\ RecordedOne(lastTrip)
       /\ LastResult(lastTrip.loginAfter).iResult =
            IF \E i \in LinesRead(lastTrip.response) : ContainsIgnoringCase(lastTrip.response[i], lastTrip.mdBefore.denySignal)
            THEN LOGIN_RESULT_FAIL ELSE LOGIN_RESULT_SUCCESS

C9_Witness ==
  /\ lastTrip.n > 0
  /\ lastTrip.statusCode = HTTP_OK
  /\ lastTrip.response = Resp200Deny
  /\ LastResult(lastTrip.loginAfter) = [pPass |-> Creds[2].pPass, iResult |-> LOGIN_RESULT_FAIL]

\* C10: when the connect in state NEW fails, LOGIN_RESULT_UNKNOWN is recorded
\* for the current password, initModule returns FAILURE, nothing runs
\* afterwards and no socket is left open.
C10_ConnectFailure ==
  ret = "FAILURE"
    => /\ login.results # <<>>
       /\ LastResult(login) = [pPass |-> Creds[psCredSet.idx].pPass, iResult |-> LOGIN_RESULT_UNKNOWN]
       /\ login.iResult = LOGIN_RESULT_UNKNOWN
       /\ openSockets = {}
       /\ hSocket < 0
       /\ ~ENABLED Next

C10_Witness == ret = "FAILURE" /\ nTrips >= 1 /\ Len(login.results) >= 2

ClientErrorTrip == lastTrip.outcome = "CLIENT_ERROR"

\* C11: on a 400, 401, 403 or 404 status LOGIN_RESULT_UNKNOWN is recorded for
\* the current password, the credential iterator is not advanced, no further
\* round-trip or connect takes place, and the invocation reaches
\* MSTATE_COMPLETE.
C11_ClientErrorStops ==
  /\ [](ClientErrorTrip
         => /\ lastTrip.statusCode \in ClientErrorCodes
            /\ RecordedOne(lastTrip)
            /\ LastResult(login).iResult = LOGIN_RESULT_UNKNOWN
            /\ ~lastTrip.advanced
            /\ psCredSet.idx = lastTrip.idx
            /\ nState \in {MSTATE_EXITING, MSTATE_COMPLETE}
            /\ ~ENABLED StateRunning
            /\ ~ENABLED StateNew)
  /\ (ClientErrorTrip ~> (nState = MSTATE_COMPLETE /\ ret = "SUCCESS"))

C11_Witness ==
  /\ ClientErrorTrip
  /\ lastTrip.loginBefore.iResult = LOGIN_RESULT_SUCCESS
  /\ lastTrip.idx = 2
  /\ nState = MSTATE_COMPLETE

\* The lines of a response buffer, CRLF being the line end.
RECURSIVE LinesOf(_, _)
LinesOf(buf, from) ==
  LET ends == {i \in from..(Len(buf) - 1) : buf[i] = CR /\ buf[i + 1] = LF}
  IN  IF ends = {} THEN <<SubSeq(buf, from, Len(buf))>>
      ELSE <<SubSeq(buf, from, MinOf(ends) - 1)>> \o LinesOf(buf, MinOf(ends) + 2)

\* The header lines of a response: those after the status line and before
\* the first empty line.
HeaderLines(buf) ==
  LET lines == LinesOf(buf, 1)
      empties == {i \in 2..Len(lines) : lines[i] = <<>>}
      last == IF empties = {} THEN Len(lines) ELSE MinOf(empties) - 1
  IN  SubSeq(lines, 2, last)

IsSetCookie(line) == Len(line) >= 11 /\ LowerStr(SubSeq(line, 1, 11)) = C("set-cookie:")

\* The value of a header line: what follows the colon, leading spaces and
\* tabs dropped.
HeaderValue(line) ==
  LET colon == strchr(line, ":")
      rest == {i \in (colon + 1)..Len(line) : line[i] \notin {" ", "\t"}}
  IN  IF rest = {} THEN <<>> ELSE SubSeq(line, MinOf(rest), Len(line))

\* One "Cookie: <value>" line for each Set-Cookie header of hdrs, in order.
RECURSIVE CookieLines(_)
CookieLines(hdrs) ==
  IF hdrs = <<>> THEN <<>>
  ELSE (IF IsSetCookie(Head(hdrs)) THEN C("Cookie: ") \o HeaderValue(Head(hdrs)) \o CRLF ELSE <<>>)
         \o CookieLines(Tail(hdrs))

\* C12: a followed redirect leaves cookieJar equal to its previous content
\* followed by one "Cookie: <value>" line per Set-Cookie header of the
\* response, in order and with duplicates kept, and the request built next
\* carries the whole jar.
C12_CookiesAppendedInOrder ==
  /\ (lastTrip.outcome = "REDIRECT" /\ ~lastTrip.undefinedRead)
       => moduleData.cookieJar = lastTrip.mdBefore.cookieJar \o CookieLines(HeaderLines(lastTrip.response[1]))
  /\ (lastTrip.n > 0 /\ lastTrip.chainBefore.len > 0 /\ lastTrip.request # NoRequest)
       => lastTrip.request.cookieJar = lastTrip.mdBefore.cookieJar

IsLocation(line) == Len(line) >= 9 /\ LowerStr(SubSeq(line, 1, 9)) = C("location:")

\* The value of the first Location header of a response buffer.
LocationOf(buf) ==
  LET hdrs == HeaderLines(buf)
  IN  HeaderValue(hdrs[MinOf({i \in 1..Len(hdrs) : IsLocation(hdrs[i])})])

\* The path a Location value leads to from basePath: the query string cut
\* off; a target that begins with "/" or with "http" is taken as it is, any
\* other is resolved against basePath.
TargetPath(basePath, location) ==
  LET target == StripParameters(location)
  IN  IF target # <<>> /\ target[1] = "/" THEN target
      ELSE IF Len(target) > 4 /\ LowerStr(SubSeq(target, 1, 4)) = C("http") THEN target
      ELSE resolvePath(basePath, target)

\* The round-trip made last follows, for the same pair, a POST that was
\* answered by a 307 or 308 with a Location header.
FollowsPreservedPost ==
  /\ lastTrip.n > 1
  /\ lastTrip.prev.outcome = "REDIRECT"
  /\ ~lastTrip.prev.undefinedRead
  /\ lastTrip.prev.statusCode \in {HTTP_TEMPORARY_REDIRECT, HTTP_PERMANENT_REDIRECT}
  /\ lastTrip.prev.request.method = "POST"
  /\ lastTrip.prev.idx = lastTrip.idx

C14_FormConfigurationValid ==
  nState # MSTATE_INITIALIZE
    => /\ moduleData.formType \in {FORM_GET, FORM_POST}
       /\ moduleData.formUserKey \notin {NULL, <<>>}
       /\ moduleData.formPassKey \notin {NULL, <<>>}

C14_Witness ==
  /\ moduleData.formData \in {C("put?user=&pass="), C("post?user=")}
  /\ moduleData.formUserKey = MODULE_DEFAULT_USERNAME_KEY
  /\ moduleData.formPassKey = MODULE_DEFAULT_PASSWORD_KEY
  /\ moduleData.formType = FORM_GET
  /\ moduleData.changedRequestType
  /\ lastTrip.outcome = "REDIRECT"
  /\ lastTrip.mdBefore.formType = FORM_POST

EmptyOrEndsWithCRLF(str) ==
  \/ str \in {NULL, <<>>}
  \/ Len(str) >= 2 /\ SubSeq(str, Len(str) - 1, Len(str)) = CRLF

\* C15: in every state customHeaders and cookieJar are each empty (or not yet
\* allocated) or end with CRLF.
C15_HeaderBlocksEndWithCRLF ==
  /\ EmptyOrEndsWithCRLF(moduleData.customHeaders)
  /\ EmptyOrEndsWithCRLF(moduleData.cookieJar)

C15_Witness ==
  /\ moduleData.customHeaders = C("X-A: 1\r\nX-B: 2\r\n")
  /\ moduleData.nCustomHeaders = 2
  /\ moduleData.cookieJar = C("Cookie: a=1\r\nCookie: b=2\r\nCookie: s=9\r\n")
  /\ lastTrip.outcome = "REDIRECT"

\* C16: at most one socket is open at any time, it is the one hSocket names,
\* and none is open once initModule has returned (MSTATE_COMPLETE reached or
\* FAILURE returned).
C16_AtMostOneSocket ==
  /\ Cardinality(openSockets) <= 1
  /\ openSockets \subseteq {hSocket}
  /\ (nState = MSTATE_COMPLETE \/ ret \in {"SUCCESS", "FAILURE"}) => openSockets = {}

C16_Witness ==
  /\ ret = "SUCCESS"
  /\ nState = MSTATE_COMPLETE
  /\ nTrips >= 2
  /\ lastTrip.prev.outcome = "REDIRECT"
  /\ openSockets = {}

IsHexDigit(c) == \E i \in 1..Len(HexDigits) : HexDigits[i] = c

HexValue(c) == (CHOOSE i \in 1..Len(HexDigits) : HexDigits[i] = c) - 1

\* The byte with a given value, as written in the strings here.
ByteOf(code) ==
  IF \E i \in 1..Len(OtherByteCodes) : OtherByteCodes[i] = code
  THEN OtherBytes[CHOOSE i \in 1..Len(OtherByteCodes) : OtherByteCodes[i] = code]
  ELSE IF code \in 32..126 THEN Ascii[code - 31]
  ELSE "<other>"

\* Percent-decoding: "%XY" stands for the byte with hexadecimal value XY, any
\* other character for itself.
RECURSIVE PercentDecode(_)
PercentDecode(str) ==
  IF str = <<>> THEN <<>>
  ELSE IF str[1] = "%" /\ Len(str) >= 3 /\ IsHexDigit(str[2]) /\ IsHexDigit(str[3])
    THEN <<ByteOf(16 * HexValue(str[2]) + HexValue(str[3]))>> \o PercentDecode(SubSeq(str, 4, Len(str)))
  ELSE <<str[1]>> \o PercentDecode(Tail(str))

UnreservedOrPercent == {"%"} \cup {UpperChars[i] : i \in 1..Len(UpperChars)} \cup {LowerChars[i] : i \in 1..Len(LowerChars)} \cup {Digits[i] : i \in 1..Len(Digits)}

\* C17: what urlencodeup returns holds only letters, digits and "%", is at
\* most three times as long as its argument, and percent-decodes to its
\* argument byte for byte.
C17_UrlEncodeRoundTrip ==
  enc.stage = "return"
    => /\ \A i \in 1..Len(enc.szRet) : enc.szRet[i] \in UnreservedOrPercent
       /\ Len(enc.szRet) <= 3 * Len(enc.szStr)
       /\ PercentDecode(enc.szRet) = enc.szStr

\* The round-trip made last produced a verdict (SUCCESS or FAIL on 200 OK)
\* and getNextCredSet then moved the iterator on.
VerdictThenAdvanced == lastTrip.outcome = "OK" /\ lastTrip.advanced

\* C18 as stated: after a verdict and the advance of the iterator the next
\* state is MSTATE_NEW for CREDENTIAL_NEW_USER, MSTATE_EXITING for
\* CREDENTIAL_DONE and MSTATE_RUNNING otherwise.
C18_NextStateAsStated ==
  VerdictThenAdvanced
    => lastTrip.nStateAfter =
         CASE psCredSet.iStatus = CREDENTIAL_NEW_USER -> MSTATE_NEW
           [] psCredSet.iStatus = CREDENTIAL_DONE -> MSTATE_EXITING
           [] OTHER -> MSTATE_RUNNING

\* C18 amended: after a verdict and the advance of the iterator the next
\* state is MSTATE_EXITING for CREDENTIAL_DONE and MSTATE_NEW otherwise, for
\* the same user as for a new one: tryLogin returns MSTATE_NEW after a
\* verdict and the state is left at that for the next pair of the same user.
C18_NextStateAfterVerdict ==
  VerdictThenAdvanced
    => /\ lastTrip.returned = MSTATE_NEW
       /\ lastTrip.nStateAfter =
            IF psCredSet.iStatus = CREDENTIAL_DONE THEN MSTATE_EXITING ELSE MSTATE_NEW

C18_Witness ==
  /\ VerdictThenAdvanced
  /\ psCredSet.iStatus = CREDENTIAL_SAME_USER
  /\ lastTrip.nStateAfter = MSTATE_NEW
  /\ nState = MSTATE_RUNNING
  /\ psCredSet.idx = 2

\* C19: no connection carries more than one request: after a request has
\* been sent the state machine leaves MSTATE_RUNNING, and the next request is
\* sent only after the socket was closed and a new connect made.
C19_OneRequestPerConnection ==
  /\ nSent <= 1
  /\ (nState = MSTATE_RUNNING /\ Running) => (nSent = 0 /\ openSockets = {hSocket})
  /\ (lastTrip.n > 0 /\ lastTrip.sent) => lastTrip.nStateAfter \in {MSTATE_NEW, MSTATE_EXITING}

C19_Witness ==
  /\ nSent = 1
  /\ lastTrip.n = 3
  /\ lastTrip.sent
  /\ lastTrip.prev.outcome = "OK"
  /\ lastTrip.prev.idx = 1
  /\ lastTrip.idx = 2
  /\ lastTrip.firstOfPair
  /\ openSockets = {hSocket}

\* The round-trip made last got a redirect status in a response without a
\* Location header.
RedirectWithoutLocation ==
  /\ lastTrip.n > 0
  /\ lastTrip.sent
  /\ lastTrip.statusCode \in RedirectCodes
  /\ \A i \in 1..Len(HeaderLines(lastTrip.response[1])) : ~IsLocation(HeaderLines(lastTrip.response[1])[i])

\* C20: a redirect status without a Location header records
\* LOGIN_RESULT_UNKNOWN, makes the round-trip return MSTATE_EXITING and
\* leaves the module data as they were, Set-Cookie headers or not.
C20_RedirectWithoutLocation ==
  RedirectWithoutLocation
    => /\ RecordedOne(lastTrip)
       /\ LastResult(lastTrip.loginAfter).iResult = LOGIN_RESULT_UNKNOWN
       /\ lastTrip.returned = MSTATE_EXITING
       /\ moduleData = lastTrip.mdBefore

C20_Witness ==
  /\ RedirectWithoutLocation
  /\ IsSetCookie(HeaderLines(lastTrip.response[1])[1])
  /\ lastTrip.mdBefore.cookieJar = C("Cookie: s=9\r\n")
  /\ lastTrip.loginBefore.iResult = LOGIN_RESULT_FAIL
  /\ nState = MSTATE_COMPLETE

\* A Location target up to its first "?" (the query string left out).
TargetBeforeQuery(target) ==
  LET marks == {i \in 1..Len(target) : target[i] = "?"}
  IN  IF marks = {} THEN target ELSE SubSeq(target, 1, MinOf(marks) - 1)

Resolved == call.fn = "_resolveLocationPath" /\ call.stage = "return"

\* C21: when the Location target is empty, or is empty once its query string
\* is cut off at the first "?", _resolveLocationPath sees PATHTYPE_UNKNOWN
\* and leaves resourcePath, resourcePathOld and hostHeader as they were.
C21_EmptyTargetMutatesNothing ==
  Resolved /\ TargetBeforeQuery(call.newLocation) = <<>>
    => /\ call.pathType = PATHTYPE_UNKNOWN
       /\ call.mdAfter.resourcePath = call.md.resourcePath
       /\ call.mdAfter.resourcePathOld = call.md.resourcePathOld
       /\ call.mdAfter.hostHeader = call.md.hostHeader

BeginsWithSlash(target) == Len(target) >= 1 /\ target[1] = "/"

BeginsWithHttp(target) == Len(target) >= 4 /\ LowerStr(SubSeq(target, 1, 4)) = C("http")

\* C22: resolving a target that begins with "/" sets resourcePath to the
\* target cut at its first "?" and leaves hostHeader alone; resolving a
\* target that begins with "http" in any case sets hostHeader and
\* resourcePath to the cut target; resourcePathOld is changed by neither.
C22_AbsoluteAndUriTargets ==
  Resolved
    => /\ BeginsWithSlash(call.newLocation)
            => /\ call.mdAfter.resourcePath = TargetBeforeQuery(call.newLocation)
               /\ call.mdAfter.hostHeader = call.md.hostHeader
               /\ call.mdAfter.resourcePathOld = call.md.resourcePathOld
       /\ BeginsWithHttp(call.newLocation)
            => /\ call.mdAfter.resourcePath = TargetBeforeQuery(call.newLocation)
               /\ call.mdAfter.hostHeader = TargetBeforeQuery(call.newLocation)
               /\ call.mdAfter.resourcePathOld = call.md.resourcePathOld

\* The round-trip made last built its request while changedRequestType was set.
BuiltWhileChanged ==
  lastTrip.n > 0 /\ lastTrip.mdBefore.changedRequestType /\ lastTrip.request # NoRequest

\* C23: whenever changedRequestType is set, formType is FORM_GET, and a
\* request built then is a GET of resourcePath whose parameter string is
\* empty: no query, no body, neither the login nor the password in them.
C23_ChangedMeansPlainGet ==
  /\ moduleData.changedRequestType => moduleData.formType = FORM_GET
  /\ BuiltWhileChanged
       => /\ lastTrip.mdBefore.formType = FORM_GET
          /\ lastTrip.request.method = "GET"
          /\ lastTrip.request.resourcePath = lastTrip.mdBefore.resourcePath
          /\ lastTrip.request.query = <<>>
          /\ lastTrip.request.body = <<>>
          /\ lastTrip.request.nParameters = 0
          /\ ~Occurs(Creds[lastTrip.idx].pUser, lastTrip.request.query \o lastTrip.request.body)
          /\ ~Occurs(Creds[lastTrip.idx].pPass, lastTrip.request.query \o lastTrip.request.body)

\* A plain GET was sent while changedRequestType was set, for a module that
\* was configured with POST.
C23_Witness ==
  /\ BuiltWhileChanged
  /\ lastTrip.sent
  /\ lastTrip.request.method = "GET"
  /\ lastTrip.chainBefore.len > 0
  /\ lastTrip.chainBefore.startType = FORM_POST

Parsed == call.fn = "parseHttpStatusCode" /\ call.stage = "return"

\* The token after the first space of a status line: what stands between the
\* spaces that follow the version and the next space, CR, LF or the end.
StatusToken(buf) ==
  LET sp == MinOf({i \in 1..Len(buf) : buf[i] = " "})
      from == MinOf({i \in sp..(Len(buf) + 1) : i = Len(buf) + 1 \/ buf[i] # " "})
      to == MinOf({i \in from..(Len(buf) + 1) : i = Len(buf) + 1 \/ buf[i] \in {" ", CR, LF}})
  IN  SubSeq(buf, from, to - 1)

IsNumeric(token) == token # <<>> /\ \A i \in 1..Len(token) : isdigit(token[i])

\* The kind C24 states for a buffer.
StatedKind(buf) ==
  IF buf = NULL \/ buf = <<>> \/ (\A i \in 1..Len(buf) : buf[i] # " ") THEN HTTP_STATUS_PARSE_ERR
  ELSE IF ~IsNumeric(StatusToken(buf)) THEN HTTP_STATUS_PARSE_ERR
  ELSE IF DigitsValue(StatusToken(buf), 1, 0) \in {200, 301, 302, 307, 308, 400, 401, 403, 404}
       THEN DigitsValue(StatusToken(buf), 1, 0)
  ELSE HTTP_STATUS_NOT_IMPL

\* C24: parseHttpStatusCode returns the code itself for 200, 301, 302, 307,
\* 308, 400, 401, 403 and 404, HTTP_STATUS_NOT_IMPL for any other number, and
\* HTTP_STATUS_PARSE_ERR when the buffer is absent, empty, without a space, or
\* holds no number after its first space.
C24_StatusKinds == Parsed => call.ret = StatedKind(call.buf)

\* Every request of the invocation so far was answered with a redirect that
\* carries a Location header, and no connect failed and no read ended the
\* process.
OnlyRedirectsSoFar == nTrips > 0 /\ chain.len = nTrips /\ ret \notin {"FAILURE", "CRASHED"}

\* C25: nothing bounds the round-trips made for one pair. However many
\* requests have been answered with a redirect that carries a Location
\* header, the state machine is in MSTATE_NEW or MSTATE_RUNNING, about to
\* make the next one for the same pair; no verdict has been recorded and
\* MSTATE_COMPLETE is not reached.
C25_RedirectsFollowedWithoutBound ==
  OnlyRedirectsSoFar
    => /\ nState \in {MSTATE_NEW, MSTATE_RUNNING}
       /\ nState # MSTATE_COMPLETE
       /\ ret = "NONE"
       /\ login.results = <<>>
       /\ psCredSet = [idx |-> 1, iStatus |-> CREDENTIAL_NEW_USER]
       /\ lastTrip.idx = 1
       /\ lastTrip.returned = MSTATE_NEW

\* As many redirects as the model allows round-trips were followed for the
\* first pair and the next connection is open for one more.
C25_Witness ==
  /\ OnlyRedirectsSoFar
  /\ nTrips = MaxTrips
  /\ nState = MSTATE_RUNNING
  /\ hSocket \in openSockets

\* The invocation has ended: the loop has reached MSTATE_COMPLETE or
\* initModule has returned FAILURE after a failed connect.
Ended == nState = MSTATE_COMPLETE \/ ret = "FAILURE"

\* C26: with a finite iterator and a server that sends only finitely many
\* redirects in a row, every invocation eventually ends, in MSTATE_COMPLETE
\* or with the return after a failed connect.
C26_EveryInvocationEnds == <>Ended

\* The round-trip made last recorded LOGIN_RESULT_SUCCESS or LOGIN_RESULT_FAIL
\* for the pair that was current.
VerdictRecorded == lastTrip.n > 0 /\ lastTrip.outcome = "OK"

\* C27: a SUCCESS or FAIL verdict is recorded for a pair only if a request
\* that carries the pair's login and encoded password was sent since the
\* pair became the current one; a follow-up without credentials that was
\* started for another pair never decides it.
C27_VerdictOnlyAfterCredentialsSent ==
  VerdictRecorded
    => /\ lastTrip.idx \in credsSentFor
       /\ LastResult(lastTrip.loginAfter).pPass = Creds[lastTrip.idx].pPass
       /\ LastResult(lastTrip.loginAfter).iResult \in {LOGIN_RESULT_SUCCESS, LOGIN_RESULT_FAIL}

\* A chain of redirects that never changed the method and whose Location
\* headers were read inside their buffers.
MethodKept(ch) == ch.len > 0 /\ ch.changes = 0 /\ ~ch.last.undefinedRead

\* The path and the host the latest redirect of a chain leads to.
ChainPath(ch) == TargetPath(ch.last.basePath, LocationOf(ch.last.response[1]))

ChainHost(ch) ==
  LET target == TargetBeforeQuery(LocationOf(ch.last.response[1]))
  IN  IF Len(target) > 4 /\ BeginsWithHttp(target) THEN target ELSE ch.last.hostHeader

\* The round-trip made last is the first after a chain that kept the method
\* was completed by a 200 OK verdict.
FirstAfterKeptChain ==
  /\ lastTrip.n > 1
  /\ lastTrip.prev.outcome = "OK"
  /\ MethodKept(lastTrip.prev.chainBefore)
  /\ lastTrip.request # NoRequest

\* C28: when a redirect chain that never changed the method (307/308 only,
\* or a GET form) is completed by a 200 OK verdict, resourcePath and
\* hostHeader stay what the redirect made them, and the first request of the
\* next pair goes to the resolved redirect path with the replaced Host
\* header.
C28_KeptChainIsNotRestored ==
  /\ (lastTrip.outcome = "OK" /\ MethodKept(lastTrip.chainBefore))
       => /\ moduleData.resourcePath = ChainPath(lastTrip.chainBefore)
          /\ moduleData.hostHeader = ChainHost(lastTrip.chainBefore)
          /\ moduleData.resourcePathOld = lastTrip.mdBefore.resourcePathOld
  /\ FirstAfterKeptChain
       => /\ lastTrip.idx # lastTrip.prev.idx
          /\ lastTrip.request.resourcePath = ChainPath(lastTrip.prev.chainBefore)
          /\ lastTrip.request.hostHeader = ChainHost(lastTrip.prev.chainBefore)

\* The first request of a pair went to the path and the host a redirect
\* answered to an earlier pair had set, both other than the configured ones.
C28_Witness ==
  /\ FirstAfterKeptChain
  /\ lastTrip.sent
  /\ lastTrip.request.resourcePath # lastTrip.prev.chainBefore.startPath
  /\ lastTrip.request.hostHeader # lastTrip.prev.chainBefore.startHost

====
